---- MODULE Spec2Model ----
(***************************************************************************)
(* On-demand image transformation with a cache-aside store, as implemented *)
(* by serveImages (src/src/runtime.ts) and by the imageTools development   *)
(* middleware (src/src/plugin.ts).                                         *)
(*                                                                         *)
(* Strings of the program are modelled as sequences of tokens: a path is   *)
(* <<"/", "a", ".", "png">>, a query is a sequence of <<key, value>> pairs *)
(* in the order of the URL.  Image bytes are records naming the picture,   *)
(* its width and its encoded format; md5 and etag are injective tags of    *)
(* their argument (no collisions among the inputs of the model).           *)
(***************************************************************************)
EXTENDS Integers, Sequences, FiniteSets, TLC

\* Number of requests one behaviour delivers to the handler.
MaxRequests == 2

\* Handler invocations that can be in flight at the same time.
Slots == {1, 2}

Null == "<null>"
NoHeader == [absent |-> TRUE]
Undefined == [undefined |-> TRUE]
Corrupt == [corrupt |-> TRUE]

---------------------------------------------------------------------------
(* Request inputs *)

ImagePath == <<"/", "a", ".", "png">>
OtherPath == <<"/", "n", ".", "txt">>

W1   == <<"w", "1">>
W2   == <<"w", "2">>
Png  == <<"format", "png">>
Webp == <<"format", "webp">>
Gif  == <<"format", "gif">>

\* The queries delivered: no parameter; one directive; the format of the
\* path's extension given explicitly, alone and after a directive; a
\* directive the engine does not recognize; two names in both orders; one
\* name twice, in both orders.
Queries ==
  { <<>>, <<W1>>, <<Png>>, <<W1, Png>>, <<Gif>>,
    <<W1, Webp>>, <<Webp, W1>>, <<W1, W2>>, <<W2, W1>> }

\* The requests delivered: every query on the image path, and the other
\* path with and without a query.
Requests ==
  { [path |-> ImagePath, query |-> q] : q \in Queries }
    \cup { [path |-> OtherPath, query |-> q] : q \in { <<>>, <<W1>> } }

\* Keys in the order URLSearchParams.sort() puts them (code unit order).
KeyOrder == <<"format", "w">>

---------------------------------------------------------------------------
(* path, is-image *)

ImageExtensions == {"png", "gif", "webp", "jpg"}

RECURSIVE LastIndexOf(_, _, _)
LastIndexOf(s, tok, i) ==
  IF i = 0 THEN 0
  ELSE IF s[i] = tok THEN i ELSE LastIndexOf(s, tok, i - 1)

\* path.extname: from the last "." of the last segment to the end.
extname(p) ==
  LET dot == LastIndexOf(p, ".", Len(p))
      sep == LastIndexOf(p, "/", Len(p))
  IN IF dot > sep + 1 THEN SubSeq(p, dot, Len(p)) ELSE <<>>

\* String.prototype.slice(1)
slice1(s) == IF s = <<>> THEN <<>> ELSE Tail(s)

\* path.basename(p, ext): the last segment, with the suffix ext removed.
basename(p, ext) ==
  LET sep  == LastIndexOf(p, "/", Len(p))
      name == SubSeq(p, sep + 1, Len(p))
  IN IF ext # <<>> /\ Len(name) > Len(ext)
        /\ SubSeq(name, Len(name) - Len(ext) + 1, Len(name)) = ext
     THEN SubSeq(name, 1, Len(name) - Len(ext))
     ELSE name

\* A one-token string as its token ("png" for <<"png">>); "" for the empty string.
Str(s) == IF s = <<>> THEN "" ELSE s[1]

\* A test that takes every path for an image.
isImageAlways(p) == TRUE

isImage(p) == Str(slice1(extname(p))) \in ImageExtensions

---------------------------------------------------------------------------
(* URLSearchParams *)

Has(params, k) == \E i \in 1..Len(params) : params[i][1] = k

Get(params, k) ==
  IF Has(params, k)
  THEN params[CHOOSE i \in 1..Len(params) :
                /\ params[i][1] = k
                /\ \A j \in 1..(i - 1) : params[j][1] # k][2]
  ELSE Null

\* set(k, v): the first pair named k takes v and the others are removed;
\* appended when there is none.
Set(params, k, v) ==
  IF Has(params, k)
  THEN LET first == CHOOSE i \in 1..Len(params) :
                      /\ params[i][1] = k
                      /\ \A j \in 1..(i - 1) : params[j][1] # k
           keep(pr) == pr[1] # k
       IN SubSeq(params, 1, first - 1) \o <<(<<k, v>>)>>
            \o SelectSeq(SubSeq(params, first + 1, Len(params)), keep)
  ELSE Append(params, <<k, v>>)

RECURSIVE SortFrom(_, _)
SortFrom(params, i) ==
  IF i > Len(KeyOrder) THEN <<>>
  ELSE LET named(pr) == pr[1] = KeyOrder[i]
       IN SelectSeq(params, named) \o SortFrom(params, i + 1)

\* A handler that hashes the parameters in the order of the URL.
SortOmitted(params) == params

\* sort(): a stable sort by name; pairs with the same name keep their order.
Sort(params) == SortFrom(params, 1)

---------------------------------------------------------------------------
(* Image engine (sharp) and transform engine (imagetools-core), at the     *)
(* interface the handlers use.                                             *)

OutputFormats == {"png", "webp", "jpg"}

\* The bytes of the source image a loader or a file holds for a path.
SourceBytes(p, origin) ==
  [pix |-> <<origin, p>>, w |-> "orig", fmt |-> Str(slice1(extname(p)))]

NoMeta == [attached |-> FALSE]

\* sharp(bytes): a lazy handle; nothing is decoded yet.
sharp(bytes) == [input |-> bytes, w |-> "", fmt |-> "", meta |-> NoMeta]

Decodable(h) == h.input # Corrupt

\* image.toBuffer(): the encoded output; raises on undecodable input.
toBuffer(h) ==
  IF ~Decodable(h) THEN [threw |-> TRUE]
  ELSE [threw |-> FALSE,
        data  |-> [pix |-> h.input.pix,
                   w   |-> IF h.w = "" THEN h.input.w ELSE h.w,
                   fmt |-> IF h.fmt = "" THEN h.input.fmt ELSE h.fmt]]

ApplyOp(h, op) ==
  IF op.name = "resize" THEN [h EXCEPT !.w = op.arg, !.meta.width = op.arg]
  ELSE [h EXCEPT !.fmt = op.arg, !.meta.format = op.arg]

RECURSIVE ApplyOps(_, _)
ApplyOps(h, ops) ==
  IF ops = <<>> THEN h ELSE ApplyOps(ApplyOp(h, Head(ops)), Tail(ops))

\* applyTransforms(transforms, image): attaches the input's metadata (which
\* decodes the input, and raises when it is undecodable), then runs the
\* operations in order.
applyTransforms(ops, h) ==
  IF ~Decodable(h) THEN [threw |-> TRUE]
  ELSE [threw |-> FALSE,
        image |-> ApplyOps([h EXCEPT !.meta = [attached |-> TRUE,
                                               format   |-> h.input.fmt,
                                               width    |-> h.input.w]], ops)]

\* getMetadata(image, 'format')
getMetadataFormat(h) == IF h.meta.attached THEN h.meta.format ELSE "undefined"

NoConfig == [none |-> TRUE]

Recognized(pr) ==
  \/ pr[1] = "w"
  \/ pr[1] = "format" /\ pr[2] \in OutputFormats

RECURSIVE LastValue(_, _, _)
LastValue(entries, k, i) ==
  IF i = 0 THEN ""
  ELSE IF entries[i][1] = k /\ Recognized(entries[i]) THEN entries[i][2]
       ELSE LastValue(entries, k, i - 1)

\* resolveConfigs(extractEntries(params), builtinOutputFormats)[0]: the
\* recognized directives as one configuration (a repeated name keeps its
\* last value), or none when no directive is recognized.
resolveConfigs(params) ==
  IF \A i \in 1..Len(params) : ~Recognized(params[i]) THEN NoConfig
  ELSE [w      |-> LastValue(params, "w", Len(params)),
        format |-> LastValue(params, "format", Len(params))]

\* generateTransforms(config, factories).transforms
generateTransforms(config) ==
  (IF config.w = "" THEN <<>> ELSE <<[name |-> "resize", arg |-> config.w]>>)
  \o (IF config.format = "" THEN <<>>
      ELSE <<[name |-> "format", arg |-> config.format]>>)

md5Hex8(text) == <<"md5", text>>

\* etag(buffer, { weak: true })
etag(bytes) == [weak |-> TRUE, of |-> bytes]

\* basename + '.' + md5Hex(path + '?' + params).slice(0, 8) + '.' + format
ImageId(p, params) ==
  [base |-> basename(p, extname(p)),
   hash |-> md5Hex8(<<p, "?", params>>),
   fmt  |-> Get(params, "format")]

---------------------------------------------------------------------------
(* Deployment options *)

NoAllow == [kind |-> "none"]

\* allow given as a map from parameter names to their permitted values: one
\* with an optional width, one without a format key, one with a required
\* width.
AllowMaps ==
  { [kind |-> "map", names |-> {"w", "format"},
     values |-> [k \in {"w", "format"} |->
                   IF k = "w" THEN {"1", Null} ELSE {"png", "webp"}]],
    [kind |-> "map", names |-> {"w"},
     values |-> [k \in {"w"} |-> {"1", "2"}]],
    [kind |-> "map", names |-> {"w", "format"},
     values |-> [k \in {"w", "format"} |->
                   IF k = "w" THEN {"1", "2"} ELSE {"png"}]] }

\* allow given as a hook; this one refuses requests that ask for width 2 and
\* delivers its verdict at once or as a promise.
AllowHooks == { [kind |-> "hook", async |-> a] : a \in BOOLEAN }

AllowOptions == {NoAllow} \cup AllowMaps \cup AllowHooks

NoHeaders == [k \in {} |-> ""]

\* The headers option (devHeaders in the middleware) as a hook of the
\* request: this one marks resized images and leaves the others alone.
CallerHeaders(params) ==
  IF Has(params, "w")
  THEN [k \in {"Cache-Control", "X-Robots-Tag"} |->
          IF k = "Cache-Control" THEN "no-store" ELSE "noindex"]
  ELSE NoHeaders

\* A merge in which the default wins over the caller's header.
AssignKeepsTarget(target, source) ==
  [k \in DOMAIN target \cup DOMAIN source |->
     IF k \in DOMAIN target THEN target[k] ELSE source[k]]

\* Object.assign(target, source), { ...target, ...source }
Assign(target, source) ==
  [k \in DOMAIN target \cup DOMAIN source |->
     IF k \in DOMAIN source THEN source[k] ELSE target[k]]

\* serveImages: with and without a cache, with each kind of loader, and
\* with the file present or not in the public directory and under the
\* project root when the loader finds nothing; the allow option is
\* exercised on the deployment with a cache and a loader that finds its
\* image.
ServeDeployments ==
  { d \in [mode : {"serve"}, cache : BOOLEAN,
           load : {"data", "absent", "throws"}, allow : AllowOptions,
           publicFile : BOOLEAN, rootFile : BOOLEAN] :
      /\ d.allow # NoAllow => d.cache /\ d.load = "data"
      /\ d.load # "absent" => ~d.publicFile /\ ~d.rootFile }

\* imageTools: with and without a cache directory, with each kind of
\* loader, and with the file present or not in the public directory and
\* under the project root when the loader finds nothing.
DevDeployments ==
  { d \in [mode : {"dev"}, cache : BOOLEAN,
           load : {"data", "absent", "throws"}, allow : {NoAllow},
           publicFile : BOOLEAN, rootFile : BOOLEAN] :
      d.load # "absent" => ~d.publicFile /\ ~d.rootFile }

\* A construction that creates the directory whatever the options say.
mkdirSyncAlways(o) == TRUE

\* makeLocalImageCache and configureServer create the directory when they
\* are given one; with caching disabled nothing is created.
mkdirSync(o) == o.cache

---------------------------------------------------------------------------
(* State *)

VARIABLES
  opts,        \* the options the handler was built with
  cacheDir,    \* whether the cache directory was created (mkdirSync)
  files,       \* the cache directory: image id -> stored bytes
  req,         \* per slot: the request being handled and the handler's locals
  started      \* requests delivered so far

vars == <<opts, cacheDir, files, req, started>>

NoImage == [none |-> TRUE]
NoResponse == [none |-> TRUE]

Idle ==
  [pc |-> "idle", n |-> 0, path |-> <<>>, query |-> <<>>, inm |-> NoHeader,
   params |-> <<>>, config |-> NoConfig, imageId |-> Undefined,
   found |-> Undefined, image |-> NoImage, hit |-> FALSE,
   cacheReads |-> 0, cacheWrite |-> "none",
   loads |-> 0, transforms |-> <<>>, outcome |-> "none", resp |-> NoResponse]

Init ==
  /\ opts \in ServeDeployments \cup DevDeployments
  /\ cacheDir = mkdirSync(opts)
  /\ files = [i \in {} |-> Corrupt]
  /\ req = [s \in Slots |-> Idle]
  /\ started = 0

---------------------------------------------------------------------------
(* The allow option of serveImages *)

\* A map check that does not ask for the keys without null.
AllowedByMapLenient(m, params) ==
  \A i \in 1..Len(params) :
    /\ params[i][1] \in m.names
    /\ params[i][2] \in m.values[params[i][1]]

\* The hook allow is turned into when it is given as a map.
AllowedByMap(m, params) ==
  /\ \A i \in 1..Len(params) :
       /\ params[i][1] \in m.names
       /\ params[i][2] \in m.values[params[i][1]]
  /\ \A name \in m.names : Null \notin m.values[name] => Has(params, name)

HookVerdict(params) == Get(params, "w") # "2"

\* What allow(req) returns: a boolean, or a promise of one.
Allow(a, params) ==
  IF a.kind = "map" THEN [promise |-> FALSE, value |-> AllowedByMap(a, params)]
  ELSE [promise |-> a.async, value |-> HookVerdict(params)]

\* !x is false for every object, a promise included.
Truthy(x) == x.promise \/ x.value

---------------------------------------------------------------------------
(* The image cache *)

NotRead == [bytes |-> Undefined, image |-> Undefined, passes |-> <<>>]

\* A read that decodes the stored bytes and returns nothing.
readReturnsNothing(fs, id) ==
  IF id \notin DOMAIN fs THEN NotRead
  ELSE [bytes |-> fs[id], image |-> Undefined, passes |-> << <<>> >>]

\* makeLocalImageCache(...).read: readFileSync raises when there is no file;
\* the handle is assigned before the metadata pass, so a failure of that
\* pass leaves it assigned.
read(fs, id) ==
  IF id \notin DOMAIN fs THEN NotRead
  ELSE LET h == sharp(fs[id])
           t == applyTransforms(<<>>, h)
       IN [bytes  |-> fs[id],
           image  |-> IF t.threw THEN h ELSE t.image,
           passes |-> << <<>> >>]

\* The same read, inlined in the middleware.
devRead(fs, id) ==
  IF id \notin DOMAIN fs THEN NotRead
  ELSE LET h == sharp(fs[id])
           t == applyTransforms(<<>>, h)
       IN [bytes  |-> fs[id],
           image  |-> IF t.threw THEN h ELSE t.image,
           passes |-> << <<>> >>]

\* A lookup that tries the project root before the public directory.
readImageRootFirst(o, p) ==
  IF o.rootFile THEN SourceBytes(p, "root")
  ELSE IF o.publicFile THEN SourceBytes(p, "public")
  ELSE Undefined

\* readImage(config, uri): the public directory first, then the project root.
readImage(o, p) ==
  IF o.publicFile THEN SourceBytes(p, "public")
  ELSE IF o.rootFile THEN SourceBytes(p, "root")
  ELSE Undefined

\* The slot the next request is handled in: the lowest one whose handler
\* has returned and whose cache write, if any, has landed.
Free(s) == req[s].pc \in {"idle", "done"} /\ req[s].cacheWrite # "pending"
NextSlot(s) == Free(s) /\ \A t \in Slots : t < s => ~Free(t)

StaleTag == [weak |-> TRUE, of |-> [pix |-> <<>>, w |-> "", fmt |-> ""]]

---------------------------------------------------------------------------
(* serveImages *)

Finish(r, how) == [r EXCEPT !.pc = "done", !.outcome = how]

\* A handler that shares the image of a request in flight for the same
\* identifier instead of producing its own.
serveStartShared(n, p, q) ==
  LET r0     == [Idle EXCEPT !.n = n, !.path = p, !.query = q]
      ext    == extname(p)
      given  == IF Has(q, "format") THEN q
                ELSE Set(q, "format", Str(slice1(ext)))
      sorted == Sort(given)
      id     == ImageId(p, sorted)
      donors == { t \in Slots : /\ req[t].imageId = id /\ req[t].loads = 1
                                /\ req[t].image # NoImage }
      cached == IF ~opts.cache THEN NotRead
                ELSE IF id \notin DOMAIN files /\ donors # {}
                THEN [bytes  |-> Undefined,
                      image  |-> req[CHOOSE t \in donors : TRUE].image,
                      passes |-> <<>>]
                ELSE read(files, id)
  IN IF ~isImage(p) THEN Finish(r0, "next")
     ELSE IF opts.allow.kind # "none" /\ ~Truthy(Allow(opts.allow, given))
     THEN Finish([r0 EXCEPT !.params = given], "next")
     ELSE [r0 EXCEPT
             !.params     = sorted,
             !.config     = resolveConfigs(sorted),
             !.imageId    = id,
             !.cacheReads = IF opts.cache THEN 1 ELSE 0,
             !.found      = cached.bytes,
             !.transforms = cached.passes,
             !.hit        = cached.image # Undefined,
             !.image      = IF cached.image # Undefined THEN cached.image
                            ELSE NoImage,
             !.pc         = IF cached.image # Undefined THEN "ready"
                            ELSE "miss"]

\* The handler up to the end of cache.read: not-an-image and disallowed
\* requests return at once; the others get their parameters normalised,
\* their configuration resolved, their identifier derived and the cache read.
serveStart(n, p, q) ==
  LET r0     == [Idle EXCEPT !.n = n, !.path = p, !.query = q]
      ext    == extname(p)
      given  == IF Has(q, "format") THEN q
                ELSE Set(q, "format", Str(slice1(ext)))
      sorted == Sort(given)
      id     == ImageId(p, sorted)
      cached == IF opts.cache THEN read(files, id) ELSE NotRead
  IN IF ~isImage(p) THEN Finish(r0, "next")
     ELSE IF opts.allow.kind # "none" /\ ~Truthy(Allow(opts.allow, given))
     THEN Finish([r0 EXCEPT !.params = given], "next")
     ELSE [r0 EXCEPT
             !.params     = sorted,
             !.config     = resolveConfigs(sorted),
             !.imageId    = id,
             !.cacheReads = IF opts.cache THEN 1 ELSE 0,
             !.found      = cached.bytes,
             !.transforms = cached.passes,
             !.hit        = cached.image # Undefined,
             !.image      = IF cached.image # Undefined THEN cached.image
                            ELSE NoImage,
             !.pc         = IF cached.image # Undefined THEN "ready"
                            ELSE "miss"]

ServeBegin(s) ==
  /\ opts.mode = "serve"
  /\ started < MaxRequests
  /\ NextSlot(s)
  /\ \E u \in Requests :
       req' = [t \in Slots |->
                 IF t = s THEN serveStart(started + 1, u.path, u.query)
                 ELSE IF Free(t) THEN Idle ELSE req[t]]
  /\ started' = started + 1
  /\ UNCHANGED <<opts, cacheDir, files>>

\* A miss path that leaves an image without configuration as sharp made it.
serveLoadedBare(r) ==
  LET ops == IF r.config # NoConfig THEN generateTransforms(r.config)
             ELSE <<>>
      src == sharp(SourceBytes(r.path, "loader"))
  IN [r EXCEPT !.loads       = 1,
               !.transforms  = IF r.config # NoConfig THEN Append(@, ops) ELSE @,
               !.image       = IF r.config # NoConfig
                               THEN applyTransforms(ops, src).image ELSE src,
               !.cacheWrite  = IF opts.cache THEN "pending" ELSE "none",
               !.pc          = "ready"]

\* The miss path: load(req), the transforms, and cache.write, which is
\* called and not awaited.
serveLoaded(r) ==
  LET ops == IF r.config # NoConfig THEN generateTransforms(r.config)
             ELSE <<>>
      t   == applyTransforms(ops, sharp(SourceBytes(r.path, "loader")))
  IN [r EXCEPT !.loads       = 1,
               !.transforms  = Append(@, ops),
               !.image       = t.image,
               !.cacheWrite  = IF opts.cache THEN "pending" ELSE "none",
               !.pc          = "ready"]

\* A miss path without the check of what the loader returned.
serveMissUnchecked(r) ==
  IF opts.load = "throws" THEN Finish([r EXCEPT !.loads = 1], "threw")
  ELSE serveLoaded(r)

\* if (!imageData) return; a loader that raises rejects the handler.
serveMiss(r) ==
  IF opts.load = "throws" THEN Finish([r EXCEPT !.loads = 1], "threw")
  ELSE IF opts.load = "absent" THEN Finish([r EXCEPT !.loads = 1], "next")
  ELSE serveLoaded(r)

ServeLoad(s) ==
  /\ opts.mode = "serve"
  /\ req[s].pc = "miss"
  /\ req' = [req EXCEPT ![s] = serveMiss(req[s])]
  /\ UNCHANGED <<opts, cacheDir, files, started>>

\* makeLocalImageCache(...).write after its await, whenever the handler is
\* suspended or has returned: the file is written, or the write raises,
\* which rejects a promise nobody holds and leaves the handler as it is.
CacheWrite(s) ==
  /\ opts.mode = "serve"
  /\ req[s].cacheWrite = "pending"
  /\ LET r == req[s]
         b == toBuffer(r.image)
     IN \E ok \in BOOLEAN :
          IF ok /\ ~b.threw
          THEN /\ files' = (r.imageId :> b.data) @@ files
               /\ req' = [req EXCEPT ![s].cacheWrite = "stored"]
          ELSE /\ req' = [req EXCEPT ![s].cacheWrite = "raised"]
               /\ UNCHANGED files
  /\ UNCHANGED <<opts, cacheDir, started>>

\* A response builder that never compares the ETag.
serveResponseUnconditional(r, inm) ==
  LET b == toBuffer(r.image) IN
  IF b.threw THEN Finish(r, "threw")
  ELSE Finish([r EXCEPT !.inm = inm,
                 !.resp = [status  |-> 200,
                           headers |-> Assign(
                             [k \in {"Content-Type", "Cache-Control", "ETag"} |->
                                IF k = "Content-Type"
                                THEN <<"image/", getMetadataFormat(r.image)>>
                                ELSE IF k = "Cache-Control" THEN "max-age=360000"
                                ELSE etag(b.data)],
                             CallerHeaders(r.params)),
                           body    |-> b.data]], "responded")

\* The response: the image is serialised, its ETag compared with the
\* request's If-None-Match (drawn here, where the handler first reads it:
\* no header, the tag of these bytes, or another tag).
serveResponse(r, inm) ==
  LET b == toBuffer(r.image) IN
  IF b.threw THEN Finish(r, "threw")
  ELSE LET tag      == etag(b.data)
           defaults == [k \in {"Content-Type", "Cache-Control", "ETag"} |->
                          IF k = "Content-Type"
                          THEN <<"image/", getMetadataFormat(r.image)>>
                          ELSE IF k = "Cache-Control" THEN "max-age=360000"
                          ELSE tag]
       IN IF inm = tag
          THEN Finish([r EXCEPT !.inm = inm,
                         !.resp = [status |-> 304, headers |-> NoHeaders,
                                   body |-> Undefined]], "responded")
          ELSE Finish([r EXCEPT !.inm = inm,
                         !.resp = [status  |-> 200,
                                   headers |-> Assign(defaults, CallerHeaders(r.params)),
                                   body    |-> b.data]], "responded")

IfNoneMatchValues(r) ==
  {NoHeader, StaleTag}
    \cup (IF toBuffer(r.image).threw THEN {}
          ELSE {etag(toBuffer(r.image).data)})

ServeRespond(s) ==
  /\ opts.mode = "serve"
  /\ req[s].pc = "ready"
  /\ \E inm \in IfNoneMatchValues(req[s]) :
       req' = [req EXCEPT ![s] = serveResponse(req[s], inm)]
  /\ UNCHANGED <<opts, cacheDir, files, started>>

---------------------------------------------------------------------------
(* The imageTools development middleware *)

\* A middleware that leaves the parameters as the URL gave them.
devStartAsGiven(n, p, q) ==
  LET r0     == [Idle EXCEPT !.n = n, !.path = p, !.query = q]
      sorted == Sort(q)
      config == resolveConfigs(sorted)
      id     == ImageId(p, sorted)
      cached == IF cacheDir THEN devRead(files, id) ELSE NotRead
  IN IF ~isImage(p) \/ q = <<>> THEN Finish(r0, "next")
     ELSE IF config = NoConfig
     THEN Finish([r0 EXCEPT !.params = sorted], "next")
     ELSE [r0 EXCEPT
             !.params     = sorted,
             !.config     = config,
             !.imageId    = id,
             !.cacheReads = IF cacheDir THEN 1 ELSE 0,
             !.found      = cached.bytes,
             !.transforms = cached.passes,
             !.hit        = cached.image # Undefined,
             !.image      = IF cached.image # Undefined THEN cached.image
                            ELSE NoImage,
             !.pc         = IF cached.image # Undefined THEN "ready"
                            ELSE "miss"]

\* The middleware up to the end of the cache read: requests that are not
\* for an image, carry no query or resolve to no configuration go to next().
devStart(n, p, q) ==
  LET r0     == [Idle EXCEPT !.n = n, !.path = p, !.query = q]
      ext    == extname(p)
      given  == IF Has(q, "format") THEN q
                ELSE Set(q, "format", Str(slice1(ext)))
      sorted == Sort(given)
      config == resolveConfigs(sorted)
      id     == ImageId(p, sorted)
      cached == IF cacheDir THEN devRead(files, id) ELSE NotRead
  IN IF ~isImage(p) \/ q = <<>> THEN Finish(r0, "next")
     ELSE IF config = NoConfig
     THEN Finish([r0 EXCEPT !.params = sorted], "next")
     ELSE [r0 EXCEPT
             !.params     = sorted,
             !.config     = config,
             !.imageId    = id,
             !.cacheReads = IF cacheDir THEN 1 ELSE 0,
             !.found      = cached.bytes,
             !.transforms = cached.passes,
             !.hit        = cached.image # Undefined,
             !.image      = IF cached.image # Undefined THEN cached.image
                            ELSE NoImage,
             !.pc         = IF cached.image # Undefined THEN "ready"
                            ELSE "miss"]

DevBegin(s) ==
  /\ opts.mode = "dev"
  /\ started < MaxRequests
  /\ NextSlot(s)
  /\ \E u \in Requests :
       req' = [t \in Slots |->
                 IF t = s THEN devStart(started + 1, u.path, u.query)
                 ELSE IF Free(t) THEN Idle ELSE req[t]]
  /\ started' = started + 1
  /\ UNCHANGED <<opts, cacheDir, files>>

\* loadImage(uri, params), then readImage when it returns nothing.
devSource(o, p) ==
  IF o.load = "data" THEN SourceBytes(p, "loader") ELSE readImage(o, p)

devLoaded(r, data) ==
  LET ops == generateTransforms(r.config)
      t   == applyTransforms(ops, sharp(data))
  IN [r EXCEPT !.loads       = 1,
               !.transforms  = Append(@, ops),
               !.image       = t.image,
               !.cacheWrite  = IF cacheDir THEN "stored" ELSE "none",
               !.pc          = "ready"]

\* The miss path: the source, the transforms, and the write of the result,
\* which is awaited and outside any try (stored tells whether writeFileSync
\* returns or raises).
devMiss(r, stored) ==
  LET data == devSource(opts, r.path) IN
  IF opts.load = "throws" THEN Finish([r EXCEPT !.loads = 1], "threw")
  ELSE IF data = Undefined THEN Finish([r EXCEPT !.loads = 1], "next")
  ELSE IF cacheDir /\ ~stored
  THEN Finish([devLoaded(r, data) EXCEPT !.cacheWrite = "raised"], "threw")
  ELSE devLoaded(r, data)

DevLoad(s) ==
  /\ opts.mode = "dev"
  /\ req[s].pc = "miss"
  /\ \E stored \in BOOLEAN :
       LET r1 == devMiss(req[s], stored) IN
         /\ req' = [req EXCEPT ![s] = r1]
         /\ files' = IF r1.cacheWrite = "stored"
                     THEN (r1.imageId :> toBuffer(r1.image).data) @@ files
                     ELSE files
  /\ UNCHANGED <<opts, cacheDir, started>>

\* writeHead(200, ...) and image.pipe(res): no ETag is computed and the
\* request's If-None-Match is not read.
devResponse(r, inm) ==
  LET b        == toBuffer(r.image)
      defaults == [k \in {"Content-Type", "Cache-Control"} |->
                     IF k = "Content-Type"
                     THEN <<"image/", getMetadataFormat(r.image)>>
                     ELSE "max-age=360000"]
  IN Finish([r EXCEPT !.inm = inm,
               !.resp = [status  |-> 200,
                         headers |-> Assign(defaults, CallerHeaders(r.params)),
                         body    |-> IF b.threw THEN Corrupt ELSE b.data]],
            "responded")

DevRespond(s) ==
  /\ opts.mode = "dev"
  /\ req[s].pc = "ready"
  /\ \E inm \in IfNoneMatchValues(req[s]) :
       req' = [req EXCEPT ![s] = devResponse(req[s], inm)]
  /\ UNCHANGED <<opts, cacheDir, files, started>>

---------------------------------------------------------------------------
(* The environment *)

\* A stored file is damaged (a truncated or overwritten cache file) while
\* requests are still to come.
Damage(id) ==
  /\ started < MaxRequests
  /\ id \in DOMAIN files
  /\ files[id] # Corrupt
  /\ files' = [files EXCEPT ![id] = Corrupt]
  /\ UNCHANGED <<opts, cacheDir, req, started>>

Next ==
  \/ \E s \in Slots : ServeBegin(s)
  \/ \E s \in Slots : ServeLoad(s)
  \/ \E s \in Slots : ServeRespond(s)
  \/ \E s \in Slots : CacheWrite(s)
  \/ \E s \in Slots : DevBegin(s)
  \/ \E s \in Slots : DevLoad(s)
  \/ \E s \in Slots : DevRespond(s)
  \/ \E id \in DOMAIN files : Damage(id)

Spec == Init /\ [][Next]_vars

---------------------------------------------------------------------------
(* Cache-key determinism *)

Derived(s) == req[s].imageId # Undefined

Values(q, k) == LET named(pr) == pr[1] = k IN SelectSeq(q, named)

Count(q, pr) == Cardinality({ i \in 1..Len(q) : q[i] = pr })

\* q1 and q2 hold the same parameters, in any order.
Permutation(q1, q2) ==
  /\ Len(q1) = Len(q2)
  /\ \A i \in 1..Len(q1) : Count(q1, q1[i]) = Count(q2, q1[i])

\* The values of each name come in the same order in q1 and in q2.
SameValueOrder(q1, q2) ==
  \A i \in 1..Len(q1) : Values(q1, q1[i][1]) = Values(q2, q1[i][1])

\* C1 as stated: two requests for one path whose queries are permutations
\* of each other derive the same identifier, whatever the order of the
\* values of a repeated name.
C1_AnyPermutationSameId ==
  \A s \in Slots, t \in Slots :
    (/\ Derived(s) /\ Derived(t)
     /\ req[s].path = req[t].path
     /\ Permutation(req[s].query, req[t].query))
    => req[s].imageId = req[t].imageId

\* C1 amended: two requests for one path whose queries are permutations of
\* each other that keep the values of every repeated name in the same order
\* derive the same identifier (sort() orders by name and is stable).
C1_StablePermutationSameId ==
  \A s \in Slots, t \in Slots :
    (/\ Derived(s) /\ Derived(t)
     /\ req[s].path = req[t].path
     /\ Permutation(req[s].query, req[t].query)
     /\ SameValueOrder(req[s].query, req[t].query))
    => req[s].imageId = req[t].imageId

\* Two requests in flight whose queries differ in order only.
C1_Witness ==
  /\ Derived(1) /\ Derived(2)
  /\ req[1].path = req[2].path
  /\ req[1].query # req[2].query
  /\ Permutation(req[1].query, req[2].query)
  /\ SameValueOrder(req[1].query, req[2].query)
  /\ req[1].imageId = req[2].imageId

---------------------------------------------------------------------------
(* Cache-aside correctness *)

\* The request in slot s read, from the cache, bytes a write had stored.
ReadStored(s) ==
  /\ req[s].cacheReads = 1
  /\ req[s].found # Undefined
  /\ req[s].found # Corrupt

\* The request in slot t stored the image that the request in slot s read.
WroteFor(t, s) ==
  /\ t # s
  /\ req[t].cacheWrite = "stored"
  /\ req[t].imageId = req[s].imageId
  /\ toBuffer(req[t].image).data = req[s].found

\* C2: a request that reads what write(id, X) stored gets a cache hit whose
\* metadata is that of the stored bytes and of X; on that hit the loader is
\* not invoked, the only transform pass is the one with the empty operation
\* list, and nothing is written to the cache.
C2_CacheAside ==
  \A s \in Slots :
    ReadStored(s) =>
      /\ req[s].hit
      /\ req[s].pc \in {"ready", "done"}
      /\ req[s].image.meta.attached
      /\ req[s].image.meta.format = req[s].found.fmt
      /\ req[s].image.meta.width = req[s].found.w
      /\ \A t \in Slots : WroteFor(t, s) => req[s].image.meta = req[t].image.meta
      /\ req[s].loads = 0
      /\ req[s].transforms = << <<>> >>
      /\ req[s].cacheWrite = "none"

\* A request answered from the entry that a request still in its slot wrote
\* with a non-empty operation list.
C2_Witness ==
  \E s \in Slots, t \in Slots :
    /\ ReadStored(s) /\ WroteFor(t, s)
    /\ req[t].transforms # << <<>> >>
    /\ req[s].pc = "done" /\ req[s].outcome = "responded"

---------------------------------------------------------------------------
(* The response *)

Responded(s) == req[s].pc = "done" /\ req[s].outcome = "responded"

\* The request in slot s holds an image that serialises.
Serialises(s) == req[s].image # NoImage /\ ~toBuffer(req[s].image).threw

Bytes(s) == toBuffer(req[s].image).data

NotModified(s) ==
  /\ req[s].resp.status = 304
  /\ req[s].resp.headers = NoHeaders
  /\ req[s].resp.body = Undefined

\* C3 as stated: every request that obtains an image and whose If-None-Match
\* equals the ETag of the serialised image is answered 304 with no headers
\* and no body, by either handler.
C3_ConditionalInBothHandlers ==
  \A s \in Slots :
    (Responded(s) /\ Serialises(s) /\ req[s].inm = etag(Bytes(s)))
    => NotModified(s)

\* C3 amended: every request handled by serveImages that obtains an image
\* and whose If-None-Match equals the ETag of the serialised image is
\* answered 304 with no headers and no body, on the miss path as on a hit;
\* the imageTools middleware never answers 304.
C3_ConditionalInServeImages ==
  \A s \in Slots :
    /\ (/\ opts.mode = "serve" /\ req[s].pc = "done"
        /\ Serialises(s) /\ req[s].inm = etag(Bytes(s)))
       => Responded(s) /\ NotModified(s)
    /\ (opts.mode = "dev" /\ Responded(s)) => req[s].resp.status = 200

\* A 304 on the path that loaded, transformed and wrote the image.
C3_Witness ==
  \E s \in Slots :
    /\ opts.mode = "serve" /\ Responded(s)
    /\ req[s].loads = 1 /\ req[s].cacheWrite # "none"
    /\ req[s].inm = etag(Bytes(s))
    /\ req[s].resp.status = 304

\* The headers of a 200: the three defaults, each replaced by the caller's
\* header of the same name, and the caller's other headers.
MergedHeaders(s, names) ==
  LET h      == req[s].resp.headers
      caller == CallerHeaders(req[s].params)
  IN /\ DOMAIN h = names \cup DOMAIN caller
     /\ \A k \in DOMAIN caller : h[k] = caller[k]
     /\ "Content-Type" \in names \ DOMAIN caller
          => h["Content-Type"] = <<"image/", req[s].image.meta.format>>
     /\ "Cache-Control" \in names \ DOMAIN caller
          => h["Cache-Control"] = "max-age=360000"
     /\ "ETag" \in names \ DOMAIN caller
          => h["ETag"] = etag(req[s].resp.body)

Ok200(s) ==
  /\ req[s].resp.status = 200
  /\ req[s].resp.body = Bytes(s)
  /\ MergedHeaders(s, {"Content-Type", "Cache-Control", "ETag"})

\* C4 as stated: a request whose If-None-Match is absent or differs from
\* the ETag is answered 200 with the serialised bytes and the headers
\* Content-Type, Cache-Control and ETag merged with the caller's, by either
\* handler.
C4_OkInBothHandlers ==
  \A s \in Slots :
    (Responded(s) /\ Serialises(s) /\ req[s].inm # etag(Bytes(s)))
    => Ok200(s)

\* C4 amended: a request handled by serveImages whose If-None-Match is
\* absent or differs from the ETag is answered 200 with the serialised
\* bytes and the headers Content-Type, Cache-Control and ETag merged with
\* the caller's, a caller's header replacing the default of the same name;
\* the imageTools middleware sends no ETag.
C4_OkInServeImages ==
  \A s \in Slots :
    /\ (/\ opts.mode = "serve" /\ req[s].pc = "done"
        /\ Serialises(s) /\ req[s].inm # etag(Bytes(s)))
       => Responded(s) /\ Ok200(s)
    /\ (opts.mode = "dev" /\ Responded(s))
       => "ETag" \notin DOMAIN req[s].resp.headers

\* A 200 whose Cache-Control is the caller's, sent to a client whose
\* If-None-Match is out of date.
C4_Witness ==
  \E s \in Slots :
    /\ opts.mode = "serve" /\ Responded(s)
    /\ req[s].inm = StaleTag
    /\ req[s].resp.status = 200
    /\ req[s].resp.headers["Cache-Control"] = "no-store"
    /\ req[s].resp.headers["ETag"] = etag(Bytes(s))

---------------------------------------------------------------------------
(* Failures *)

\* C5: whenever the read of the stored bytes fails (no file) or their
\* decoding fails (the metadata pass raises), the cache read reports
\* absence and the handler takes the miss path: it loads the source.
C5_ReadFailureIsMiss ==
  \A s \in Slots :
    (req[s].cacheReads = 1 /\ req[s].found \in {Undefined, Corrupt})
    => /\ ~req[s].hit
       /\ req[s].pc = "done" => req[s].loads = 1

\* C6: when persisting the transformed image raises, the request still
\* completes with its 200 or 304 response; the failure does not end the
\* handler.
C6_WriteFailureNonFatal ==
  \A s \in Slots :
    (req[s].cacheWrite = "raised" /\ req[s].pc = "done")
    => /\ Responded(s)
       /\ req[s].resp.status \in {200, 304}

\* C9: a loader that throws ends the request by passing it to the next
\* handler: no response and no exception out of the handler.
C9_LoaderThrowPassesThrough ==
  \A s \in Slots :
    (opts.load = "throws" /\ req[s].loads = 1 /\ req[s].pc = "done")
    => /\ req[s].outcome = "next"
       /\ req[s].resp = NoResponse

---------------------------------------------------------------------------
(* Pass-through configuration and absent sources *)

\* The request in slot s is for an image and resolved to no configuration.
Unconfigured(s) ==
  /\ req[s].pc = "done"
  /\ isImage(req[s].path)
  /\ IF opts.mode = "serve" THEN Derived(s) /\ req[s].config = NoConfig
     ELSE /\ req[s].query # <<>>
          /\ req[s].params # <<>>
          /\ resolveConfigs(req[s].params) = NoConfig

SourceFormat(s) == Str(slice1(extname(req[s].path)))

\* The source was loaded, passed through the executor with the empty list
\* only, written under the identifier and answered in the source's format.
PassedThrough(s) ==
  /\ req[s].loads = 1
  /\ req[s].transforms = << <<>> >>
  /\ opts.cache => req[s].cacheWrite # "none"
  /\ Responded(s)
  /\ req[s].resp.status \in {200, 304}
  /\ req[s].resp.status = 200
       => req[s].resp.headers["Content-Type"] = <<"image/", SourceFormat(s)>>
  /\ getMetadataFormat(req[s].image) = SourceFormat(s)

\* C7 as stated: a request that resolves to no configuration, and whose
\* source the loader finds, is still loaded, passed through, cached and
\* answered, by either handler.
C7_PassThroughInBothHandlers ==
  \A s \in Slots :
    (Unconfigured(s) /\ opts.load = "data" /\ ~req[s].hit) => PassedThrough(s)

\* C7 amended: in serveImages a request that resolves to no configuration,
\* and whose source the loader finds, is still loaded, passed through the
\* executor with the empty list only, cached under its identifier and
\* answered 200/304 in the source's format; the imageTools middleware hands
\* such a request to next() without reading the cache, loading,
\* transforming or writing.
C7_PassThroughInServeImages ==
  \A s \in Slots :
    /\ (/\ opts.mode = "serve" /\ Unconfigured(s)
        /\ opts.load = "data" /\ ~req[s].hit) => PassedThrough(s)
    /\ (opts.mode = "dev" /\ Unconfigured(s))
       => /\ req[s].outcome = "next" /\ req[s].resp = NoResponse
          /\ req[s].cacheReads = 0 /\ req[s].loads = 0
          /\ req[s].transforms = <<>> /\ req[s].cacheWrite = "none"

\* A request with an unrecognized format only, answered 200 as a png and
\* stored in the cache.
C7_Witness ==
  \E s \in Slots :
    /\ opts.mode = "serve" /\ Unconfigured(s)
    /\ req[s].query = <<Gif>>
    /\ req[s].cacheWrite = "stored"
    /\ Responded(s) /\ req[s].resp.status = 200
    /\ req[s].resp.headers["Content-Type"] = <<"image/", "png">>

\* The cache had no entry and the loader returned nothing.
NothingFound(s) ==
  /\ req[s].pc = "done"
  /\ req[s].found = Undefined /\ ~req[s].hit
  /\ opts.load = "absent" /\ req[s].loads = 1

NoEffect(s) ==
  /\ req[s].outcome = "next"
  /\ req[s].resp = NoResponse
  /\ req[s].transforms = <<>>
  /\ req[s].cacheWrite = "none"

\* C8 as stated: with no cache entry and a loader that returns absence, the
\* handler produces no response, runs no transform and writes nothing, in
\* either handler.
C8_AbsentInBothHandlers ==
  \A s \in Slots : NothingFound(s) => NoEffect(s)

\* C8 amended: with no cache entry and a loader that returns absence,
\* serveImages produces no response, runs no transform and writes nothing;
\* the imageTools middleware does so when the file is neither in the public
\* directory nor under the project root.
C8_AbsentWithoutFallback ==
  \A s \in Slots :
    (NothingFound(s) /\ (opts.mode = "dev" => readImage(opts, req[s].path) = Undefined))
    => NoEffect(s)

\* A miss on an enabled cache followed by a loader that returns nothing.
C8_Witness ==
  \E s \in Slots :
    /\ opts.mode = "serve" /\ opts.cache
    /\ NothingFound(s) /\ req[s].cacheReads = 1
    /\ req[s].outcome = "next"

---------------------------------------------------------------------------
(* Disabled cache *)

Untouched ==
  /\ ~cacheDir
  /\ DOMAIN files = {}
  /\ \A s \in Slots :
       /\ req[s].cacheReads = 0
       /\ req[s].cacheWrite = "none"
       /\ ~req[s].hit
       /\ Responded(s) => req[s].loads = 1 /\ Len(req[s].transforms) = 1

SameRequest(s, t) ==
  /\ req[s].path = req[t].path
  /\ req[s].query = req[t].query

\* C10 as stated: with caching disabled no directory is created, storage is
\* never read or written, and the requests for one path and parameters
\* each load and transform the source and get identical responses.
C10_DisabledSameParamsSameResponse ==
  ~opts.cache =>
    /\ Untouched
    /\ \A s \in Slots, t \in Slots :
         (Responded(s) /\ Responded(t) /\ SameRequest(s, t))
         => req[s].resp = req[t].resp

\* C10 amended: with caching disabled no directory is created, storage is
\* never read or written, and the requests for one path and parameters
\* that carry the same If-None-Match each load and transform the source
\* and get identical responses.
C10_DisabledSameRequestSameResponse ==
  ~opts.cache =>
    /\ Untouched
    /\ \A s \in Slots, t \in Slots :
         (Responded(s) /\ Responded(t) /\ SameRequest(s, t)
            /\ req[s].inm = req[t].inm)
         => req[s].resp = req[t].resp

\* Two identical requests answered 200 without a cache, each after its own
\* load and transform.
C10_Witness ==
  /\ ~opts.cache
  /\ Responded(1) /\ Responded(2) /\ SameRequest(1, 2)
  /\ req[1].inm = req[2].inm
  /\ req[1].loads = 1 /\ req[2].loads = 1
  /\ req[1].transforms # << <<>> >>
  /\ req[1].resp.status = 200
  /\ req[1].resp = req[2].resp

---------------------------------------------------------------------------
(* Concurrent requests *)

\* No step of the request in slot s is held back by another request: its
\* load, its response and its pending write can each be taken at once.
NeverWaits(s) ==
  /\ req[s].pc = "miss" => ENABLED (ServeLoad(s) \/ DevLoad(s))
  /\ req[s].pc = "ready" => ENABLED (ServeRespond(s) \/ DevRespond(s))
  /\ req[s].cacheWrite = "pending" => ENABLED CacheWrite(s)

\* The requests in slots s and t are for one identifier and both read the
\* cache when it had no entry.
BothReadNothing(s, t) ==
  /\ s # t
  /\ Derived(s) /\ req[s].imageId = req[t].imageId
  /\ req[s].cacheReads = 1 /\ req[t].cacheReads = 1
  /\ req[s].found = Undefined /\ req[t].found = Undefined

\* The request in slot s went through the miss path on its own.
OwnMiss(s) ==
  /\ ~req[s].hit
  /\ (opts.load = "data" /\ req[s].pc \in {"ready", "done"})
     => /\ req[s].loads = 1
        /\ Len(req[s].transforms) = 1
        /\ req[s].cacheWrite # "none"

\* A write that lands in this step leaves its own bytes under the identifier.
WriteOverwrites(s) ==
  (req[s].cacheWrite # "stored" /\ req'[s].cacheWrite = "stored")
  => /\ req'[s].imageId \in DOMAIN files'
     /\ files'[req'[s].imageId] = toBuffer(req'[s].image).data

\* C11: no request ever waits on a step of another; two requests for one
\* identifier that both read the cache before a write landed both miss,
\* both load and transform and both write; and every write that lands
\* replaces the entry, so the entry stored in the end is the last writer's.
C11_NoCoordination ==
  /\ [](\A s \in Slots : NeverWaits(s))
  /\ [](\A s \in Slots, t \in Slots : BothReadNothing(s, t) => OwnMiss(s))
  /\ [][\A s \in Slots : WriteOverwrites(s)]_vars

\* Two requests for one identifier that both missed, both loaded and both
\* wrote, with the entry holding what they wrote.
C11_Witness ==
  /\ BothReadNothing(1, 2)
  /\ req[1].loads = 1 /\ req[2].loads = 1
  /\ req[1].cacheWrite = "stored" /\ req[2].cacheWrite = "stored"
  /\ req[1].transforms # << <<>> >>
  /\ files[req[1].imageId] = toBuffer(req[2].image).data

---------------------------------------------------------------------------
(* Write before respond *)

\* The request in slot t was answered after a miss, with a cache to write to.
AnsweredMiss(t) ==
  /\ opts.cache
  /\ Responded(t)
  /\ ~req[t].hit /\ req[t].loads = 1

\* In this step a request begins in slot s.
Begins(s) == started' = started + 1 /\ req'[s].n = started + 1

\* A request that begins after the answer to a miss for the same identifier
\* hits the cache.
HitsAfterAnswer(s, t) ==
  (Begins(s) /\ AnsweredMiss(t) /\ req'[s].imageId = req[t].imageId)
  => /\ req'[s].hit
     /\ req'[s].loads = 0
     /\ req'[s].transforms = << <<>> >>

\* C12: on the miss path the cache write has completed when the response is
\* emitted, and a request for the same identifier that starts after that
\* response hits the cache: no load and no transform but the empty pass.
C12_WriteBeforeRespond ==
  /\ [](\A t \in Slots : AnsweredMiss(t) => req[t].cacheWrite = "stored")
  /\ [][\A s \in Slots, t \in Slots : HitsAfterAnswer(s, t)]_vars

---------------------------------------------------------------------------
(* Requests the handler does not apply to *)

\* The request in slot s was handled and its path ends in no image extension.
NoImageExtension(s) ==
  /\ req[s].pc # "idle"
  /\ Str(slice1(extname(req[s].path))) \notin ImageExtensions

\* The request in slot s was handled and carries no query string.
NoQuery(s) == req[s].pc # "idle" /\ req[s].query = <<>>

\* The request in slot s was passed on and left no trace.
PassedOn(s) ==
  /\ req[s].pc = "done"
  /\ req[s].outcome = "next"
  /\ req[s].resp = NoResponse
  /\ req[s].cacheReads = 0 /\ req[s].loads = 0
  /\ req[s].transforms = <<>> /\ req[s].cacheWrite = "none"

\* C13 as stated: a request whose path has no image extension, or that
\* carries no query string, is passed on by either handler: no response, no
\* cache read, no load, no transform, no cache write.
C13_NotApplicableInBothHandlers ==
  \A s \in Slots : (NoImageExtension(s) \/ NoQuery(s)) => PassedOn(s)

\* C13 amended: a request whose path has no image extension is passed on by
\* either handler, with no response, cache read, load, transform or cache
\* write; a request without a query string is passed on in the same way by
\* the imageTools middleware only, while serveImages handles it as a
\* request whose only parameter is the defaulted format.
C13_NotApplicablePassedOn ==
  \A s \in Slots :
    /\ NoImageExtension(s) => PassedOn(s)
    /\ (opts.mode = "dev" /\ NoQuery(s)) => PassedOn(s)
    /\ (/\ opts.mode = "serve" /\ opts.allow = NoAllow
        /\ NoQuery(s) /\ ~NoImageExtension(s))
       => /\ Derived(s)
          /\ req[s].params = <<(<<"format", Str(slice1(extname(req[s].path)))>>)>>
          /\ req[s].cacheReads = (IF opts.cache THEN 1 ELSE 0)

\* A request for a path without image extension is passed on by
\* serveImages while a request without a query string is being handled.
C13_Witness ==
  /\ opts.mode = "serve"
  /\ \E s \in Slots, t \in Slots :
       /\ NoImageExtension(s) /\ ~NoQuery(s) /\ PassedOn(s)
       /\ NoQuery(t) /\ Derived(t) /\ req[t].pc = "miss"

---------------------------------------------------------------------------
(* The allow option *)

\* The parameters of the request in slot s as allow(req) sees them: the
\* query with the format defaulted.
Defaulted(s) ==
  IF Has(req[s].query, "format") THEN req[s].query
  ELSE Set(req[s].query, "format", Str(slice1(extname(req[s].path))))

\* An allow option is configured and its verdict for the image request in
\* slot s is false.
Refused(s) ==
  /\ req[s].pc # "idle"
  /\ ~NoImageExtension(s)
  /\ opts.allow # NoAllow
  /\ ~Allow(opts.allow, Defaulted(s)).value

\* C14: a request for which the configured allow option (a map, or a hook
\* whose verdict may come as a promise) says false is passed on: no
\* response, no cache read, no load, no transform, no cache write.
C14_RefusedPassedOn ==
  \A s \in Slots : Refused(s) => PassedOn(s)

---------------------------------------------------------------------------
(* Format defaulting *)

\* The path's extension without the leading dot.
Extension(s) == Str(slice1(extname(req[s].path)))

\* The parameters used for the configuration and the identifier of the
\* request in slot s hold the query's parameters and, when the query names
\* no format, format = the extension; a format of the query is kept.
FormatDefaulted(s) ==
  /\ Has(req[s].query, "format")
       => /\ Permutation(req[s].params, req[s].query)
          /\ Values(req[s].params, "format") = Values(req[s].query, "format")
  /\ ~Has(req[s].query, "format")
       => /\ Permutation(req[s].params,
                         Append(req[s].query, <<"format", Extension(s)>>))
          /\ Values(req[s].params, "format") = <<(<<"format", Extension(s)>>)>>
  /\ req[s].config = resolveConfigs(req[s].params)
  /\ req[s].imageId = ImageId(req[s].path, req[s].params)

\* The query of slot t is that of slot s, which names no format, with the
\* format set to the extension of the path.
ExplicitDefault(s, t) ==
  /\ req[s].path = req[t].path
  /\ ~Has(req[s].query, "format")
  /\ Permutation(req[t].query, Append(req[s].query, <<"format", Extension(s)>>))
  /\ SameValueOrder(req[t].query, Append(req[s].query, <<"format", Extension(s)>>))

\* C15: a request without a format gets format = the extension of its path
\* in the parameters used for configuration and identifier, a request with
\* a format keeps it, and a request without a format derives the same
\* identifier as the same request with the format set to the extension.
C15_FormatDefaulting ==
  /\ \A s \in Slots : Derived(s) => FormatDefaulted(s)
  /\ \A s \in Slots, t \in Slots :
       (Derived(s) /\ Derived(t) /\ ExplicitDefault(s, t))
       => req[s].imageId = req[t].imageId

\* w=1 and w=1&format=png on a png, both in flight under one identifier.
C15_Witness ==
  \E s \in Slots, t \in Slots :
    /\ Derived(s) /\ Derived(t) /\ ExplicitDefault(s, t)
    /\ req[s].query = <<W1>> /\ Has(req[t].query, "format")
    /\ Get(req[s].params, "format") = "png"
    /\ req[s].imageId = req[t].imageId

---------------------------------------------------------------------------
(* The format in the identifier *)

\* C16: for every request answered 200, the format that ends the
\* identifier is the format of the resolved configuration and the format
\* the response's Content-Type reports.
C16_SuffixIsOutputFormat ==
  \A s \in Slots :
    (Derived(s) /\ Responded(s) /\ req[s].resp.status = 200)
    => /\ req[s].config # NoConfig
       /\ req[s].config.format = req[s].imageId.fmt
       /\ req[s].resp.headers["Content-Type"] = <<"image/", req[s].imageId.fmt>>

---------------------------------------------------------------------------
(* Fallback source lookup *)

\* The request in slot s missed the cache and its loader returned nothing.
LoaderFoundNothing(s) ==
  /\ opts.load = "absent"
  /\ req[s].loads = 1 /\ ~req[s].hit
  /\ req[s].pc \in {"ready", "done"}

\* The request in slot s went on with the first file found, in the public
\* directory or else under the project root, and was passed on when there
\* was none.
FellBack(s) ==
  IF opts.publicFile
  THEN /\ req[s].image # NoImage
       /\ req[s].image.input = SourceBytes(req[s].path, "public")
       /\ req[s].outcome # "next"
  ELSE IF opts.rootFile
  THEN /\ req[s].image # NoImage
       /\ req[s].image.input = SourceBytes(req[s].path, "root")
       /\ req[s].outcome # "next"
  ELSE req[s].outcome = "next" /\ req[s].image = NoImage

\* C17 as stated: whenever the loader returns nothing, either handler
\* looks in the public directory, then under the project root, goes on with
\* the first file found and passes the request on only when there is none.
C17_FallbackInBothHandlers ==
  \A s \in Slots : LoaderFoundNothing(s) => FellBack(s)

\* C17 amended: when the loader returns nothing, the imageTools middleware
\* looks in the public directory, then under the project root, goes on with
\* the first file found and passes the request on only when there is none;
\* serveImages looks nowhere and passes the request on at once.
C17_FallbackInMiddleware ==
  \A s \in Slots :
    LoaderFoundNothing(s)
    => IF opts.mode = "dev" THEN FellBack(s)
       ELSE /\ req[s].outcome = "next" /\ req[s].image = NoImage
            /\ req[s].resp = NoResponse /\ req[s].cacheWrite = "none"

\* With the file in both places the middleware answered with the one of the
\* public directory.
C17_Witness ==
  \E s \in Slots :
    /\ opts.mode = "dev" /\ opts.publicFile /\ opts.rootFile
    /\ LoaderFoundNothing(s)
    /\ Responded(s)
    /\ req[s].resp.body.pix = <<"public", req[s].path>>

---------------------------------------------------------------------------
(* One outcome per request *)

\* The request in slot s ended passed on, without a response, or answered
\* by one response: 304 or 200 from serveImages, 200 from the middleware.
OneOutcome(s) ==
  \/ /\ req[s].outcome = "next" /\ req[s].resp = NoResponse
  \/ /\ req[s].outcome = "responded" /\ req[s].resp # NoResponse
     /\ req[s].resp.status \in (IF opts.mode = "serve" THEN {200, 304} ELSE {200})

\* Once a request has ended, its outcome and its response stay as they are.
OutcomeKept(s) ==
  (req[s].pc = "done" /\ req'[s].n = req[s].n)
  => /\ req'[s].pc = "done"
     /\ req'[s].outcome = req[s].outcome
     /\ req'[s].resp = req[s].resp

\* C18: when the loader does not raise, every request that has ended was
\* either passed on or answered exactly once, never both and never
\* neither, and nothing is added to an ended request.
C18_ExactlyOneOutcome ==
  /\ [](opts.load # "throws"
          => \A s \in Slots : req[s].pc = "done" => OneOutcome(s))
  /\ [][\A s \in Slots : OutcomeKept(s)]_vars

---------------------------------------------------------------------------
(* Allow-map semantics *)

\* Every parameter of the request in slot s, the defaulted format included,
\* is named by the map with its value listed, and every key of the map
\* whose list holds no null is among the parameters.
MapAccepts(s) ==
  LET prs == Defaulted(s)
      m   == opts.allow
  IN /\ \A i \in 1..Len(prs) :
          /\ prs[i][1] \in m.names
          /\ prs[i][2] \in m.values[prs[i][1]]
     /\ \A k \in m.names :
          Null \in m.values[k] \/ \E i \in 1..Len(prs) : prs[i][1] = k

\* C19: with allow given as a map, an image request goes past the check iff
\* the map accepts its parameters as they are after format defaulting, and
\* is passed on otherwise; a map without a format key accepts no request.
C19_AllowMap ==
  \A s \in Slots :
    (opts.allow.kind = "map" /\ req[s].pc # "idle" /\ ~NoImageExtension(s))
    => /\ Derived(s) <=> MapAccepts(s)
       /\ ~Derived(s) => PassedOn(s)
       /\ "format" \notin opts.allow.names => PassedOn(s)

\* With a required width: a request with width and no format of its own is
\* in flight, accepted thanks to the defaulted format, and a request
\* without width was passed on.
C19_Witness ==
  /\ opts.allow.kind = "map"
  /\ Null \notin opts.allow.values["w"]
  /\ \E s \in Slots, t \in Slots :
       /\ req[s].query = <<W1>> /\ Derived(s) /\ req[s].pc = "miss"
       /\ req[t].query = <<Png>> /\ PassedOn(t)

====
